---- MODULE Spec2Model ----
(***************************************************************************)
(* Model of the nlprule Python binding (bindings/python/src/lib.rs):       *)
(*   - the SplitOn sentence splitter,                                      *)
(*   - the scalar/iterable guards and the Tokenizer / Rules facades,       *)
(*   - the artifact resolver get_resource and its on-disk cache.           *)
(* Rust strings are modelled as what they are: sequences of UTF-8 bytes.   *)
(* Byte offsets are 0-based as in the source; TLA+ sequences are 1-based.  *)
(***************************************************************************)
EXTENDS Integers, Sequences, FiniteSets, TLC

VARIABLES
    ctor,       \* the last SplitOn(...) constructor call and what it returned
    facade,     \* the facade object under observation (Tokenizer or Rules)
    call,       \* the public call in progress and its result, or Idle
    cache_root, \* the user cache directory, if one is obtainable
    cache,      \* the on-disk cache: cache path -> file content or NoFile
    procs,      \* the processes that resolve artifacts
    pcs,        \* per process: position inside load / get_resource
    loc,        \* per process: the locals of get_resource
    log         \* per process: the loads completed so far

resolverVars == <<cache_root, cache, procs, pcs, loc, log>>
vars == <<ctor, facade, call, cache_root, cache, procs, pcs, loc, log>>

(***************************************************************************)
(* Bounds of the model.                                                    *)
(***************************************************************************)
MaxTextLen == 3        \* codepoints per text
MaxBatch == 2          \* texts per batch
MaxBatchChars == 4     \* codepoints per batch of two or more texts
MaxSplitTokens == 2    \* tokens handed to SplitOn(...)
MaxLoads == 2          \* loads per process

(***************************************************************************)
(* Strings.  A char is a Unicode scalar value; a str is its UTF-8 bytes.   *)
(***************************************************************************)
Dot == 46        \* '.'
LetterA == 97    \* 'a'
UpperA == 65     \* 'A'
EAcute == 233    \* U+00E9, two bytes in UTF-8
Euro == 8364     \* U+20AC, three bytes in UTF-8

\* char::len_utf8
len_utf8(c) ==
    IF c < 128 THEN 1 ELSE IF c < 2048 THEN 2 ELSE IF c < 65536 THEN 3 ELSE 4

\* the UTF-8 bytes of one char
EncodeChar(c) ==
    CASE c < 128 -> <<c>>
      [] c >= 128 /\ c < 2048 -> <<192 + (c \div 64), 128 + (c % 64)>>
      [] c >= 2048 /\ c < 65536 ->
            <<224 + (c \div 4096), 128 + ((c \div 64) % 64), 128 + (c % 64)>>
      [] OTHER ->
            <<240 + (c \div 262144), 128 + ((c \div 4096) % 64),
              128 + ((c \div 64) % 64), 128 + (c % 64)>>

\* String::from_iter(chars): the str holding the given chars
RECURSIVE Str(_)
Str(cs) == IF cs = <<>> THEN <<>> ELSE EncodeChar(Head(cs)) \o Str(Tail(cs))

\* width of the char that starts with lead byte b
LeadWidth(b) == IF b < 128 THEN 1 ELSE IF b < 224 THEN 2 ELSE IF b < 240 THEN 3 ELSE 4

\* the char encoded by the n bytes of text that start at byte offset i
DecodeAt(text, i, n) ==
    CASE n = 1 -> text[i + 1]
      [] n = 2 -> (text[i + 1] - 192) * 64 + (text[i + 2] - 128)
      [] n = 3 -> (text[i + 1] - 224) * 4096 + (text[i + 2] - 128) * 64
                    + (text[i + 3] - 128)
      [] OTHER -> (text[i + 1] - 240) * 262144 + (text[i + 2] - 128) * 4096
                    + (text[i + 3] - 128) * 64 + (text[i + 4] - 128)

\* str::char_indices from byte offset i on: <<byte offset, char>> pairs
RECURSIVE CharIndicesFrom(_, _)
CharIndicesFrom(text, i) ==
    IF i >= Len(text) THEN <<>>
    ELSE LET n == LeadWidth(text[i + 1])
         IN  <<<<i, DecodeAt(text, i, n)>>>> \o CharIndicesFrom(text, i + n)

char_indices(text) == CharIndicesFrom(text, 0)

\* str::chars().collect()
chars(text) == LET ci == char_indices(text) IN [k \in 1..Len(ci) |-> ci[k][2]]

\* &text[a..b]
Slice(text, a, b) == SubSeq(text, a + 1, b)

\* the strs of exactly n chars over alphabet A, and of at most n chars
RECURSIVE CharSeqs(_, _)
CharSeqs(A, n) ==
    IF n = 0 THEN {<<>>}
    ELSE {<<c>> \o s : c \in A, s \in CharSeqs(A, n - 1)}

StrsUpTo(A, n) == UNION {{Str(cs) : cs \in CharSeqs(A, k)} : k \in 0..n}

Alphabet == {Dot, LetterA, Euro}
Texts == StrsUpTo(Alphabet, MaxTextLen)
FacadeAlphabet == {Dot, LetterA, EAcute}
FacadeTexts == StrsUpTo(FacadeAlphabet, MaxTextLen)

\* the lists of exactly n texts of T that hold at most budget chars together
RECURSIVE TextLists(_, _, _)
TextLists(T, n, budget) ==
    IF n = 0 THEN {<<>>}
    ELSE UNION {{<<t>> \o r : r \in TextLists(T, n - 1, budget - Len(chars(t)))} :
                   t \in {x \in T : Len(chars(x)) <= budget}}

\* the lists of at most MaxBatch texts; two or more texts share MaxBatchChars
BatchesOf(T) ==
    {<<>>} \cup {<<t>> : t \in T}
           \cup UNION {TextLists(T, n, MaxBatchChars) : n \in 2..MaxBatch}

Batches == BatchesOf(Texts)
FacadeBatches == BatchesOf(FacadeTexts)

(***************************************************************************)
(* Results and errors.                                                     *)
(***************************************************************************)
Ok(v) == [ok |-> TRUE, val |-> v]
\* PyValueError::new_err(msg); msg is the list of the message's pieces
ValueError(msg) == [ok |-> FALSE, err |-> "ValueError", msg |-> msg]
\* a Rust panic (index out of bounds, unwrap, expect)
Panic(msg) == [ok |-> FALSE, err |-> "panic", msg |-> <<msg>>]

Idle == [op |-> "idle"]
NoCtor == [made |-> FALSE]
NoFacade == [class |-> "none"]
NoFile == [exists |-> FALSE, bytes |-> <<>>]
None == [some |-> FALSE]
Some(x) == [some |-> TRUE, obj |-> x]

\* no process resolves artifacts
NoResolver ==
    /\ cache_root = None
    /\ cache = <<>>
    /\ procs = {}
    /\ pcs = <<>>
    /\ loc = <<>>
    /\ log = <<>>

(***************************************************************************)
(* SplitOn.                                                                *)
(***************************************************************************)
\* a plausible slip: the token's width taken in bytes (x.len()) instead of chars
SplitCharOfByteLen(x) ==
    IF Len(x) /= 1
    THEN ValueError(<<"split_chars must consist of strings with exactly one character.">>)
    ELSE Ok(chars(x)[1])

\* SplitOn::new, the closure mapped over split_chars: one token -> one char
SplitCharOf(x) ==
    LET cs == chars(x)
    IN  IF Len(cs) /= 1
        THEN ValueError(<<"split_chars must consist of strings with exactly one character.">>)
        ELSE Ok(cs[1])

\* SplitOn::new: collect::<PyResult<_>>() stops at the first Err
SplitOn_new(split_chars) ==
    LET rs == [k \in 1..Len(split_chars) |-> SplitCharOf(split_chars[k])]
        bad == {k \in 1..Len(rs) : ~rs[k].ok}
    IN  IF bad /= {}
        THEN rs[CHOOSE k \in bad : \A j \in bad : k <= j]
        ELSE Ok([split_chars |-> [k \in 1..Len(rs) |-> rs[k].val]])

\* self.split_chars.iter().any(|x| *x == c)
IsSplitChar(self, c) == \E k \in 1..Len(self.split_chars) : self.split_chars[k] = c

\* the loop over text.char_indices(): state is (sentences, start)
RECURSIVE SplitScan(_, _, _, _, _, _)
SplitScan(self, text, ci, k, start, sentences) ==
    IF k > Len(ci) THEN <<sentences, start>>
    ELSE LET i == ci[k][1]
             c == ci[k][2]
         IN  IF IsSplitChar(self, c)
             THEN LET end == i + len_utf8(c)
                  IN  SplitScan(self, text, ci, k + 1, end,
                                Append(sentences, Slice(text, start, end)))
             ELSE SplitScan(self, text, ci, k + 1, start, sentences)

\* a plausible slip: the trailing remainder is never pushed
SplitTextNoTail(self, text) ==
    SplitScan(self, text, char_indices(text), 1, 0, <<>>)[1]

\* a plausible slip: the cut is made before the split char (end = i)
SplitTextCutBefore(self, text) ==
    LET RECURSIVE Scan(_, _, _)
        Scan(k, start, sentences) ==
            LET ci == char_indices(text)
            IN  IF k > Len(ci) THEN <<sentences, start>>
                ELSE IF IsSplitChar(self, ci[k][2])
                     THEN Scan(k + 1, ci[k][1],
                               Append(sentences, Slice(text, start, ci[k][1])))
                     ELSE Scan(k + 1, start, sentences)
        r == Scan(1, 0, <<>>)
    IN  IF r[2] /= Len(text) THEN Append(r[1], Slice(text, r[2], Len(text))) ELSE r[1]

\* SplitOn::__call__, the body of `for text in texts`
SplitText(self, text) ==
    LET r == SplitScan(self, text, char_indices(text), 1, 0, <<>>)
        sentences == r[1]
        start == r[2]
    IN  IF start /= Len(text)
        THEN Append(sentences, Slice(text, start, Len(text)))
        ELSE sentences

\* SplitOn::__call__
SplitOn_call(self, texts) == [k \in 1..Len(texts) |-> SplitText(self, texts[k])]

\* the tokens a caller may hand to SplitOn(...)
SplitTokens == {<<>>, Str(<<Dot>>), Str(<<EAcute>>), Str(<<Euro>>),
                Str(<<LetterA, Dot>>), Str(<<Euro, Dot>>)}

RECURSIVE TokenLists(_)
TokenLists(n) ==
    IF n = 0 THEN {<<>>}
    ELSE TokenLists(n - 1)
           \cup {<<x>> \o r : x \in SplitTokens,
                              r \in {s \in TokenLists(n - 1) : Len(s) = n - 1}}

(***************************************************************************)
(* The splitter session: construct a SplitOn, call it.                     *)
(***************************************************************************)
OtherUnchangedSplit == UNCHANGED <<facade, resolverVars>>

NewSplitOn ==
    /\ call = Idle
    /\ \E toks \in TokenLists(MaxSplitTokens) :
          ctor' = [made |-> TRUE, split_chars |-> toks, ret |-> SplitOn_new(toks)]
    /\ UNCHANGED call
    /\ OtherUnchangedSplit

CallSplitOn ==
    /\ call = Idle
    /\ ctor.made
    /\ ctor.ret.ok
    /\ \E texts \in Batches :
          call' = [op |-> "SplitOn.__call__", input |-> texts,
                   result |-> SplitOn_call(ctor.ret.val, texts)]
    /\ UNCHANGED ctor
    /\ OtherUnchangedSplit

\* the caller takes the result
Return ==
    /\ call /= Idle
    /\ call' = Idle
    /\ UNCHANGED <<ctor, facade, resolverVars>>

InitSplit ==
    /\ ctor = NoCtor
    /\ facade = NoFacade
    /\ call = Idle
    /\ NoResolver

NextSplit == NewSplitOn \/ CallSplitOn \/ Return

SpecSplit == InitSplit /\ [][NextSplit]_vars

(***************************************************************************)
(* Properties of SplitOn.                                                  *)
(***************************************************************************)
\* the strs of a list joined with no separator
RECURSIVE Concat(_)
Concat(ss) == IF ss = <<>> THEN <<>> ELSE Head(ss) \o Concat(Tail(ss))

\* number of codepoints of a str, counted on its bytes: every byte that is not
\* a continuation byte (10xxxxxx) starts a codepoint
CodepointCount(s) == Cardinality({i \in 1..Len(s) : s[i] < 128 \/ s[i] >= 192})

IsSplitCall == call /= Idle /\ call.op = "SplitOn.__call__"

\* C3: the sentences SplitOn returns for a text, concatenated in order, are
\* the text; one sentence list is returned per text.
C3_RoundTrip ==
    IsSplitCall =>
        /\ Len(call.result) = Len(call.input)
        /\ \A k \in 1..Len(call.input) : Concat(call.result[k]) = call.input[k]

\* a text that starts with two split chars, holds a multi-byte char and ends
\* in a remainder with no split char after it
C3_Witness ==
    /\ IsSplitCall
    /\ \E k \in 1..Len(call.input) :
          /\ Len(call.result[k]) = 3
          /\ Len(call.result[k][1]) = 1
          /\ Len(call.result[k][3]) > 1
          /\ ~IsSplitChar(ctor.ret.val, chars(call.result[k][3])[1])
          /\ Concat(call.result[k]) = call.input[k]

\* the structure of the sentences ss of text t: every sentence is non-empty;
\* every sentence but possibly the last ends
\* with a split char; a split char occurs in a sentence only as its last char;
\* the number of sentences is the number of split chars in the text, plus one
\* if the text is non-empty and does not end with a split char; the empty text
\* yields no sentences.
SentenceStructure(self, t, ss) ==
    LET tc == chars(t)
        occ == Cardinality({i \in 1..Len(tc) : IsSplitChar(self, tc[i])})
        tail == IF tc /= <<>> /\ ~IsSplitChar(self, tc[Len(tc)]) THEN 1 ELSE 0
    IN  /\ \A i \in 1..Len(ss) : ss[i] /= <<>>
        /\ \A i \in 1..Len(ss) - 1 :
              LET sc == chars(ss[i]) IN IsSplitChar(self, sc[Len(sc)])
        /\ \A i \in 1..Len(ss) :
              LET sc == chars(ss[i])
              IN  \A m \in 1..Len(sc) - 1 : ~IsSplitChar(self, sc[m])
        /\ Len(ss) = occ + tail
        /\ (t = <<>> => ss = <<>>)

\* C10: the sentences SplitOn returns for every text have the structure above:
\* non-empty, a split char as last char of all but possibly the last sentence
\* and nowhere else, as many sentences as split chars plus one for a trailing
\* remainder, and none for the empty text.
C10_Structure ==
    IsSplitCall =>
        \A k \in 1..Len(call.input) :
            SentenceStructure(ctor.ret.val, call.input[k], call.result[k])

\* a text with two adjacent multi-byte split chars followed by a remainder
C10_Witness ==
    /\ IsSplitCall
    /\ \E k \in 1..Len(call.input) :
          /\ Len(call.result[k]) = 3
          /\ Len(call.result[k][1]) > 1
          /\ IsSplitChar(ctor.ret.val, chars(call.result[k][1])[1])
          /\ IsSplitChar(ctor.ret.val, chars(call.result[k][2])[1])
          /\ ~IsSplitChar(ctor.ret.val, chars(call.result[k][3])[1])

\* C8: SplitOn(...) succeeds iff every token is exactly one codepoint wide; a
\* failure is a ValueError and yields no splitter; on success the splitter's
\* chars are the tokens' codepoints, in order.
C8_Construction ==
    ctor.made =>
        LET toks == ctor.split_chars
            wellFormed == \A k \in 1..Len(toks) : CodepointCount(toks[k]) = 1
        IN  /\ ctor.ret.ok <=> wellFormed
            /\ ~ctor.ret.ok =>
                  /\ ctor.ret.err = "ValueError"
                  /\ "val" \notin DOMAIN ctor.ret
            /\ ctor.ret.ok =>
                  /\ Len(ctor.ret.val.split_chars) = Len(toks)
                  /\ \A k \in 1..Len(toks) :
                        EncodeChar(ctor.ret.val.split_chars[k]) = toks[k]

\* a multi-byte one-codepoint token is accepted and kept in order
C8_Witness ==
    /\ ctor.made
    /\ ctor.ret.ok
    /\ Len(ctor.split_chars) = 2
    /\ ctor.ret.val.split_chars = <<Euro, Dot>>

\* a construction refused because of a two-codepoint token
C8_WitnessRefused ==
    /\ ctor.made
    /\ ~ctor.ret.ok
    /\ \E k \in 1..Len(ctor.split_chars) : CodepointCount(ctor.split_chars[k]) = 2

(***************************************************************************)
(* The engine behind the facades (nlprule_core): tokenizer pipeline, rule  *)
(* application and Rules::correct.  Its code is not part of the binding;   *)
(* it is modelled from its documented interface, on chars.                 *)
(***************************************************************************)
\* finalize(tokenizer.disambiguate(tokenizer.tokenize(sentence))): one token
\* per char, with its sentence-local char span
Finalize(sentence) ==
    LET cs == chars(sentence)
    IN  [k \in 1..Len(cs) |-> [text |-> EncodeChar(cs[k]), char_span |-> <<k - 1, k>>]]

\* the rule sets a Rules facade may hold
RuleSets == {"double", "cap"}

\* Rules::apply: the suggestions of one sentence, spans in sentence-local chars.
\*   "double": every token "a" gets the replacements <<"éa", "a">>;
\*   "cap":    a sentence-initial "a" gets the replacement <<"A">>.
RECURSIVE ApplyFrom(_, _, _)
ApplyFrom(rules, tokens, k) ==
    IF k > Len(tokens) THEN <<>>
    ELSE LET tok == tokens[k]
             hit == /\ tok.text = <<LetterA>>
                    /\ \/ rules = "double"
                       \/ rules = "cap" /\ k = 1
             repl == IF rules = "double"
                     THEN <<Str(<<EAcute, LetterA>>), Str(<<LetterA>>)>>
                     ELSE <<Str(<<UpperA>>)>>
             here == IF hit
                     THEN <<[start |-> tok.char_span[1], end |-> tok.char_span[2],
                             text |-> repl]>>
                     ELSE <<>>
         IN  here \o ApplyFrom(rules, tokens, k + 1)

Rules_apply(rules, tokens) == ApplyFrom(rules, tokens, 1)

\* Rules::correct: splice each suggestion's first replacement into the chars of
\* the text, in order, tracking the shift the earlier replacements caused
RECURSIVE CorrectFrom(_, _, _, _)
CorrectFrom(cs, suggestions, k, offset) ==
    IF k > Len(suggestions) THEN cs
    ELSE LET sg == suggestions[k]
             replacement == chars(sg.text[1])
             a == sg.start + offset
             b == sg.end + offset
             spliced == SubSeq(cs, 1, a) \o replacement \o SubSeq(cs, b + 1, Len(cs))
         IN  CorrectFrom(spliced, suggestions, k + 1,
                         offset + Len(replacement) - (sg.end - sg.start))

Rules_correct(text, suggestions) == Str(CorrectFrom(chars(text), suggestions, 1, 0))

(***************************************************************************)
(* Sentence splitters a facade may be configured with.                     *)
(***************************************************************************)
\* caller-supplied callables (any Python object is accepted):
\*   "Whole":   every text is one sentence;
\*   "Merge":   one sentence list for the whole batch;
\*   "Reverse": the per-text lists of "Whole", last text first;
\*   "Drop":    "Whole" with the first char of every text left out.
CustomSplitters == {"Whole", "Merge", "Reverse", "Drop"}

Custom_call(name, texts) ==
    CASE name = "Whole" -> [k \in 1..Len(texts) |-> <<texts[k]>>]
      [] name = "Merge" -> IF texts = <<>> THEN <<>> ELSE <<texts>>
      [] name = "Reverse" ->
            [k \in 1..Len(texts) |-> <<texts[Len(texts) + 1 - k]>>]
      [] OTHER ->
            [k \in 1..Len(texts) |->
                LET cs == chars(texts[k]) IN <<Str(SubSeq(cs, 2, Len(cs)))>>]

\* sentence_splitter.call1((texts,)).extract::<Vec<Vec<String>>>()
Splitter_call(sp, texts) ==
    IF sp.kind = "SplitOn" THEN SplitOn_call(sp, texts) ELSE Custom_call(sp.name, texts)

SplitOnObject(toks) ==
    [kind |-> "SplitOn", split_chars |-> SplitOn_new(toks).val.split_chars]

SplitterOptions ==
    {None}
      \cup {Some(SplitOnObject(toks)) :
               toks \in {<<Str(<<Dot>>)>>, <<Str(<<EAcute>>), Str(<<Dot>>)>>}}
      \cup {Some([kind |-> "Custom", name |-> n]) : n \in CustomSplitters}

(***************************************************************************)
(* The scalar / iterable guards.  An input is a str (iter = FALSE, the str  *)
(* in field str) or an iterable of strs (iter = TRUE, the strs in list).   *)
(***************************************************************************)
Scalar(s) == [iter |-> FALSE, str |-> s, list |-> <<>>]
Iterable(ss) == [iter |-> TRUE, str |-> <<>>, list |-> ss]

\* the closures the sentence-scoped methods hand to sentence_guard
SentenceF(self, op, sentence) ==
    CASE op = "tokenize_sentence" -> Finalize(sentence)
      [] op = "suggest_sentence" -> Rules_apply(self.rules, Finalize(sentence))
      [] op = "correct_sentence" ->
            Rules_correct(sentence, Rules_apply(self.rules, Finalize(sentence)))

\* a plausible slip: the result of a scalar call is left in its list
sentence_guard_wrapped(self, op, sentence_or_sentences) ==
    LET sentences == IF sentence_or_sentences.iter
                     THEN sentence_or_sentences.list
                     ELSE <<sentence_or_sentences.str>>
    IN  Ok([k \in 1..Len(sentences) |-> SentenceF(self, op, sentences[k])])

sentence_guard(self, op, sentence_or_sentences) ==
    LET is_iterable == sentence_or_sentences.iter
        sentences == IF is_iterable
                     THEN sentence_or_sentences.list
                     ELSE <<sentence_or_sentences.str>>
        output == [k \in 1..Len(sentences) |-> SentenceF(self, op, sentences[k])]
    IN  IF is_iterable THEN Ok(output) ELSE Ok(output[1])

\* PyTokenizer::tokenize, the closure: the tokens of all sentences, in order
RECURSIVE TokenizeLoop(_, _)
TokenizeLoop(sentences, k) ==
    IF k > Len(sentences) THEN <<>>
    ELSE Finalize(sentences[k]) \o TokenizeLoop(sentences, k + 1)

\* x.start += offset; x.end += offset
Shift(x, offset) == [x EXCEPT !.start = @ + offset, !.end = @ + offset]

\* a plausible slip: the offset advanced by the byte length (sentence.len())
OffsetStepBytes(sentence) == Len(sentence)

\* offset += sentence.chars().count()
OffsetStep(sentence) == Len(chars(sentence))

\* PyRules::suggest, the closure's loop over the sentences of one text
RECURSIVE SuggestLoop(_, _, _, _, _)
SuggestLoop(self, sentences, k, offset, output) ==
    IF k > Len(sentences) THEN output
    ELSE LET local == Rules_apply(self.rules, Finalize(sentences[k]))
             suggestions == [m \in 1..Len(local) |-> Shift(local[m], offset)]
         IN  SuggestLoop(self, sentences, k + 1, offset + OffsetStep(sentences[k]),
                         output \o suggestions)

\* a plausible slip: the corrected sentences joined with a space
CorrectJoinSpace(self, sentences) ==
    LET parts == [k \in 1..Len(sentences) |->
                    Rules_correct(sentences[k],
                                  Rules_apply(self.rules, Finalize(sentences[k])))]
        RECURSIVE Join(_)
        Join(k) == IF k > Len(parts) THEN <<>>
                   ELSE IF k = Len(parts) THEN parts[k]
                   ELSE parts[k] \o <<32>> \o Join(k + 1)
    IN  Join(1)

\* PyRules::correct, the closure: map every sentence, then join("")
CorrectJoin(self, sentences) ==
    Concat([k \in 1..Len(sentences) |->
               Rules_correct(sentences[k],
                             Rules_apply(self.rules, Finalize(sentences[k])))])

\* the closures the full-text methods hand to text_guard
TextF(self, op, sentences) ==
    CASE op = "tokenize" -> TokenizeLoop(sentences, 1)
      [] op = "suggest" -> SuggestLoop(self, sentences, 1, 0, <<>>)
      [] op = "correct" -> CorrectJoin(self, sentences)

text_guard(self, op, text_or_texts, sentence_equivalent_name) ==
    LET is_iterable == text_or_texts.iter
        texts == IF is_iterable THEN text_or_texts.list ELSE <<text_or_texts.str>>
    IN  IF self.sentence_splitter.some
        THEN LET lists == Splitter_call(self.sentence_splitter.obj, texts)
                 output == [k \in 1..Len(lists) |-> TextF(self, op, lists[k])]
             IN  IF is_iterable THEN Ok(output)
                 ELSE IF output = <<>> THEN Panic("index out of bounds")
                 ELSE Ok(output[1])
        ELSE ValueError(<<"sentence_splitter must be set. Use ",
                          sentence_equivalent_name, " to correct one sentence.">>)

\* the methods of the two facades
PyTokenizer_tokenize(self, text_or_texts) ==
    text_guard(self, "tokenize", text_or_texts, ".apply_sentence")

PyTokenizer_tokenize_sentence(self, sentence_or_sentences) ==
    sentence_guard(self, "tokenize_sentence", sentence_or_sentences)

PyRules_suggest_sentence(self, sentence_or_sentences) ==
    sentence_guard(self, "suggest_sentence", sentence_or_sentences)

PyRules_suggest(self, text_or_texts) ==
    text_guard(self, "suggest", text_or_texts, ".suggest_sentence")

PyRules_correct_sentence(self, sentence_or_sentences) ==
    sentence_guard(self, "correct_sentence", sentence_or_sentences)

PyRules_correct(self, text_or_texts) ==
    text_guard(self, "correct", text_or_texts, ".correct_sentence")

(***************************************************************************)
(* The facade session: construct a facade, call its methods.               *)
(***************************************************************************)
Inputs == {Scalar(t) : t \in FacadeTexts} \cup {Iterable(ts) : ts \in FacadeBatches}

OtherUnchangedFacade == UNCHANGED <<ctor, resolverVars>>

\* PyTokenizer::new / PyTokenizer::load, once the tokenizer is deserialized
NewTokenizer ==
    /\ call = Idle
    /\ facade = NoFacade
    /\ \E sp \in SplitterOptions :
          facade' = [class |-> "Tokenizer", sentence_splitter |-> sp]
    /\ UNCHANGED call
    /\ OtherUnchangedFacade

\* PyRules::new / PyRules::load, once the rules are deserialized
NewRules ==
    /\ call = Idle
    /\ facade = NoFacade
    /\ \E sp \in SplitterOptions, r \in RuleSets :
          facade' = [class |-> "Rules", rules |-> r, sentence_splitter |-> sp]
    /\ UNCHANGED call
    /\ OtherUnchangedFacade

Invoke(op, input, result) ==
    /\ call' = [op |-> op, input |-> input, result |-> result]
    /\ UNCHANGED facade
    /\ OtherUnchangedFacade

Tokenize ==
    /\ call = Idle
    /\ facade.class = "Tokenizer"
    /\ \E input \in Inputs :
          Invoke("tokenize", input, PyTokenizer_tokenize(facade, input))

TokenizeSentence ==
    /\ call = Idle
    /\ facade.class = "Tokenizer"
    /\ \E input \in Inputs :
          Invoke("tokenize_sentence", input, PyTokenizer_tokenize_sentence(facade, input))

SuggestSentence ==
    /\ call = Idle
    /\ facade.class = "Rules"
    /\ \E input \in Inputs :
          Invoke("suggest_sentence", input, PyRules_suggest_sentence(facade, input))

Suggest ==
    /\ call = Idle
    /\ facade.class = "Rules"
    /\ \E input \in Inputs :
          Invoke("suggest", input, PyRules_suggest(facade, input))

CorrectSentence ==
    /\ call = Idle
    /\ facade.class = "Rules"
    /\ \E input \in Inputs :
          Invoke("correct_sentence", input, PyRules_correct_sentence(facade, input))

Correct ==
    /\ call = Idle
    /\ facade.class = "Rules"
    /\ \E input \in Inputs :
          Invoke("correct", input, PyRules_correct(facade, input))

Init ==
    /\ ctor = NoCtor
    /\ facade = NoFacade
    /\ call = Idle
    /\ NoResolver

Next ==
    \/ NewTokenizer
    \/ NewRules
    \/ Tokenize
    \/ TokenizeSentence
    \/ SuggestSentence
    \/ Suggest
    \/ CorrectSentence
    \/ Correct
    \/ Return

Spec == Init /\ [][Next]_vars

(***************************************************************************)
(* Properties of the facades.                                              *)
(***************************************************************************)
SentenceOps == {"tokenize_sentence", "suggest_sentence", "correct_sentence"}
TextOps == {"tokenize", "suggest", "correct"}

IsFacadeCall == call /= Idle /\ call.op \in SentenceOps \cup TextOps

\* the texts of an input, in order
TextsOf(input) == IF input.iter THEN input.list ELSE <<input.str>>

\* the sentences splitter sp returns for the text t handed to it alone
PerText(sp, t) == Splitter_call(sp, <<t>>)[1]

\* sp returns one sentence list per text, in the order of the texts
OnePerText(sp, texts) ==
    LET lists == Splitter_call(sp, texts)
    IN  /\ Len(lists) = Len(texts)
        /\ \A k \in 1..Len(texts) : lists[k] = PerText(sp, texts[k])

\* what operation op yields for the single input s
ElementResult(self, op, s) ==
    IF op \in SentenceOps
    THEN SentenceF(self, op, s)
    ELSE TextF(self, op, PerText(self.sentence_splitter.obj, s))

ShapePreserved ==
    IF call.input.iter
    THEN /\ Len(call.result.val) = Len(call.input.list)
         /\ \A k \in 1..Len(call.input.list) :
               call.result.val[k] = ElementResult(facade, call.op, call.input.list[k])
    ELSE call.result.val = ElementResult(facade, call.op, call.input.str)

\* C1 as stated: whenever one of the six operations returns a result, a str
\* yields the single result and an iterable of n strs yields the list of the n
\* results in input order, whatever splitter the facade holds.
C1_ShapeAnySplitter == (IsFacadeCall /\ call.result.ok) => ShapePreserved

\* C1 as amended: the same, for the sentence-scoped operations always, and for
\* the full-text operations when the splitter is a SplitOn or returns one
\* sentence list per text in the order of the texts.
C1_Shape ==
    (/\ IsFacadeCall
     /\ call.result.ok
     /\ call.op \in TextOps =>
           \/ facade.sentence_splitter.obj.kind = "SplitOn"
           \/ OnePerText(facade.sentence_splitter.obj, TextsOf(call.input)))
        => ShapePreserved

\* a full-text batch of two texts through a SplitOn, with two different results
C1_Witness ==
    /\ IsFacadeCall
    /\ call.op = "suggest"
    /\ call.input.iter
    /\ Len(call.input.list) = 2
    /\ call.result.ok
    /\ facade.sentence_splitter.obj.kind = "SplitOn"
    /\ call.result.val[1] /= call.result.val[2]
    /\ call.result.val[2] /= <<>>

\* the sentence-scoped alternative of each full-text operation
SentenceEquivalent(op) ==
    CASE op = "tokenize" -> ".tokenize_sentence"
      [] op = "suggest" -> ".suggest_sentence"
      [] op = "correct" -> ".correct_sentence"

\* C2: a full-text operation on a facade without sentence splitter fails with
\* a ValueError whose message names the operation's own *_sentence method.
C2_NamesAlternative ==
    (/\ IsFacadeCall
     /\ call.op \in TextOps
     /\ ~facade.sentence_splitter.some)
        => /\ ~call.result.ok
           /\ call.result.err = "ValueError"
           /\ \E i \in 1..Len(call.result.msg) :
                 call.result.msg[i] = SentenceEquivalent(call.op)

\* the part of C2 the code meets: the call fails with a ValueError
C2_FailsWithoutSplitter ==
    (/\ IsFacadeCall
     /\ call.op \in TextOps
     /\ ~facade.sentence_splitter.some)
        => /\ ~call.result.ok
           /\ call.result.err = "ValueError"

\* the results of a full-text call, one per text, as a list
ResultsOf(c) == IF c.input.iter THEN c.result.val ELSE <<c.result.val>>

\* out is the list of the sentences' local suggestions, in sentence order, each
\* moved by the codepoints of the sentences before its own
GlobalizedFrom(self, sents, out) ==
    LET local(i) == SentenceF(self, "suggest_sentence", sents[i])
        RECURSIVE K(_)
        K(i) == IF i <= 1 THEN 0 ELSE K(i - 1) + CodepointCount(sents[i - 1])
        RECURSIVE base(_)
        base(i) == IF i <= 1 THEN 0 ELSE base(i - 1) + Len(local(i - 1))
    IN  /\ Len(out) = base(Len(sents) + 1)
        /\ \A i \in 1..Len(sents) :
              \A m \in 1..Len(local(i)) :
                  out[base(i) + m] = [start |-> local(i)[m].start + K(i),
                                      end |-> local(i)[m].end + K(i),
                                      text |-> local(i)[m].text]

\* C4: suggest returns, per text, the suggestions of its sentences in sentence
\* order, each span moved by K = the sum of the codepoint counts of the
\* earlier sentences of the same text; K restarts at 0 for every text.
C4_Globalized ==
    (call /= Idle /\ call.op = "suggest" /\ call.result.ok) =>
        LET lists == Splitter_call(facade.sentence_splitter.obj, TextsOf(call.input))
            outs == ResultsOf(call)
        IN  \A k \in 1..Len(outs) : GlobalizedFrom(facade, lists[k], outs[k])

\* a batch whose first text has a two-byte char in its first sentence and a
\* suggestion in its second (K = 2 codepoints, 3 bytes), and whose second text
\* has a suggestion at its very start (K = 0 again)
C4_Witness ==
    /\ call /= Idle
    /\ call.op = "suggest"
    /\ call.input.iter
    /\ call.result.ok
    /\ Len(call.result.val) = 2
    /\ call.input.list[1] = Str(<<EAcute, Dot, LetterA>>)
    /\ call.result.val[1] /= <<>>
    /\ call.result.val[1][1].start = 2
    /\ call.result.val[1][1].end = 3
    /\ call.result.val[2] /= <<>>
    /\ call.result.val[2][1].start = 0

\* C5: when the sentences the splitter returns for a text concatenate back to
\* the text, correct(text) is the concatenation, in order and with no
\* separator, of correct_sentence(s) over these sentences.
C5_ConcatOfSentences ==
    (call /= Idle /\ call.op = "correct" /\ call.result.ok) =>
        LET texts == TextsOf(call.input)
            lists == Splitter_call(facade.sentence_splitter.obj, texts)
            outs == ResultsOf(call)
        IN  \A k \in 1..Len(outs) :
                Concat(lists[k]) = texts[k] =>
                    outs[k] = Concat([i \in 1..Len(lists[k]) |->
                                 PyRules_correct_sentence(facade, Scalar(lists[k][i])).val])

\* "a.a" under the rule that capitalises a sentence-initial "a": both sentences
\* are rewritten, which correct_sentence("a.a") would not do
C5_Witness ==
    /\ call /= Idle
    /\ call.op = "correct"
    /\ ~call.input.iter
    /\ call.result.ok
    /\ facade.sentence_splitter.obj.kind = "SplitOn"
    /\ call.input.str = Str(<<LetterA, Dot, LetterA>>)
    /\ call.result.val = Str(<<UpperA, Dot, UpperA>>)
    /\ call.result.val /= PyRules_correct_sentence(facade, call.input).val

(***************************************************************************)
(* The artifact resolver get_resource and the load methods that call it.   *)
(* The cache directory is shared by all processes; every file system call  *)
(* and the HTTP request is one step, and fs::write is what it is: open     *)
(* with create + truncate, then write the buffer piece by piece.           *)
(***************************************************************************)
Version == "CARGO_PKG_VERSION"
Codes == {"en", "de"}
\* the two names the load methods pass
Names == {"tokenizer.bin.gz", "rules.bin.gz"}
CacheDir == "cache_dir"

\* name.strip_suffix(".gz")
strip_suffix_gz(name) ==
    CASE name = "tokenizer.bin.gz" -> "tokenizer.bin"
      [] name = "rules.bin.gz" -> "rules.bin"

\* cache_dir.join(version).join(code).join(name.strip_suffix(".gz"))
CachePathOf(root, code, name) ==
    [root |-> root, version |-> Version, code |-> code, file |-> strip_suffix_gz(name)]

CachePaths == {CachePathOf(CacheDir, c, n) : c \in Codes, n \in Names}

\* the decompressed artifact stored upstream for (version, code, name)
Artifact(code, name) ==
    <<IF code = "en" THEN 1 ELSE 2, IF name = "tokenizer.bin.gz" THEN 3 ELSE 4>>

\* bincode::deserialize_from: only the complete artifact deserializes
Deserializes(code, name, bytes) == bytes = Artifact(code, name)

NoLocals ==
    [code |-> "", name |-> "", cache_path |-> None, buffer |-> <<>>, written |-> 0]

\* a plausible slip: the cached file is never found
fs_read_miss(path) == [ok |-> FALSE, val |-> <<>>]

\* fs::read(path)
fs_read(path) ==
    IF cache[path].exists
    THEN [ok |-> TRUE, val |-> cache[path].bytes]
    ELSE [ok |-> FALSE, val |-> <<>>]

\* one write of a file opened without O_APPEND: byte b lands at offset off
WriteAt(bytes, off, b) ==
    [i \in 1..(IF Len(bytes) > off THEN Len(bytes) ELSE off + 1) |->
        IF i = off + 1 THEN b ELSE IF i <= Len(bytes) THEN bytes[i] ELSE 0]

\* get_resource returns res to load, which deserializes; the load is logged
\* with what it did: whether it sent the HTTP request, whether it gunzipped a
\* payload, whether its cache write failed
Finish(p, res, requested, gunzipped, write_failed) ==
    /\ log' = [log EXCEPT ![p] = Append(@,
                  [code |-> loc[p].code, name |-> loc[p].name,
                   has_cache_path |-> loc[p].cache_path.some,
                   ok |-> res.ok,
                   bytes |-> IF res.ok THEN res.val ELSE <<>>,
                   err |-> IF res.ok THEN "" ELSE res.err,
                   requested |-> requested,
                   gunzipped |-> gunzipped,
                   write_failed |-> write_failed,
                   loaded |-> res.ok /\ Deserializes(loc[p].code, loc[p].name, res.val)])]
    /\ pcs' = [pcs EXCEPT ![p] = "idle"]
    /\ loc' = [loc EXCEPT ![p] = NoLocals]

IoError == [ok |-> FALSE, err |-> "OSError", msg |-> <<"io error">>]

\* PyTokenizer::load / PyRules::load call get_resource(code, name);
\* get_resource computes the cache path, if a cache directory is obtainable
StartLoad(p) ==
    /\ pcs[p] = "idle"
    /\ Len(log[p]) < MaxLoads
    /\ \E code \in Codes, name \in Names :
          loc' = [loc EXCEPT ![p] =
                    [NoLocals EXCEPT !.code = code, !.name = name,
                        !.cache_path = IF cache_root.some
                                       THEN Some(CachePathOf(cache_root.obj, code, name))
                                       ELSE None]]
    /\ pcs' = [pcs EXCEPT ![p] = "read"]
    /\ UNCHANGED <<cache_root, cache, procs, log, ctor, facade, call>>

\* if the file can be read, the data is already cached
ReadCache(p) ==
    /\ pcs[p] = "read"
    /\ IF loc[p].cache_path.some /\ fs_read(loc[p].cache_path.obj).ok
       THEN Finish(p, Ok(fs_read(loc[p].cache_path.obj).val), FALSE, FALSE, FALSE)
       ELSE /\ pcs' = [pcs EXCEPT ![p] = "fetch"]
            /\ UNCHANGED <<loc, log>>
    /\ UNCHANGED <<cache_root, cache, procs, ctor, facade, call>>

\* reqwest::blocking::get(...).and_then(|x| x.bytes()) fails
FetchFails(p) ==
    /\ pcs[p] = "fetch"
    /\ Finish(p, ValueError(<<"transport error">>), TRUE, FALSE, FALSE)
    /\ UNCHANGED <<cache_root, cache, procs, ctor, facade, call>>

\* the payload arrives but is no gzip stream: expect("gunzipping failed")
FetchCorrupt(p) ==
    /\ pcs[p] = "fetch"
    /\ Finish(p, Panic("gunzipping failed"), TRUE, FALSE, FALSE)
    /\ UNCHANGED <<cache_root, cache, procs, ctor, facade, call>>

\* the payload arrives and gunzips into buffer; without a cache path the
\* buffer is returned at once
FetchOk(p) ==
    /\ pcs[p] = "fetch"
    /\ LET buffer == Artifact(loc[p].code, loc[p].name)
       IN  IF loc[p].cache_path.some
           THEN /\ loc' = [loc EXCEPT ![p].buffer = buffer]
                /\ pcs' = [pcs EXCEPT ![p] = "mkdir"]
                /\ UNCHANGED log
           ELSE Finish(p, Ok(buffer), TRUE, TRUE, FALSE)
    /\ UNCHANGED <<cache_root, cache, procs, ctor, facade, call>>

\* fs::create_dir_all(path.parent().unwrap())?
MkDirs(p) ==
    /\ pcs[p] = "mkdir"
    /\ pcs' = [pcs EXCEPT ![p] = "create"]
    /\ UNCHANGED <<cache_root, cache, procs, loc, log, ctor, facade, call>>

MkDirsFails(p) ==
    /\ pcs[p] = "mkdir"
    /\ Finish(p, IoError, TRUE, TRUE, TRUE)
    /\ UNCHANGED <<cache_root, cache, procs, ctor, facade, call>>

\* fs::write(path, &buffer)?, first half: File::create truncates the file
CreateFile(p) ==
    /\ pcs[p] = "create"
    /\ cache' = [cache EXCEPT ![loc[p].cache_path.obj] = [exists |-> TRUE, bytes |-> <<>>]]
    /\ pcs' = [pcs EXCEPT ![p] = "write"]
    /\ UNCHANGED <<cache_root, procs, loc, log, ctor, facade, call>>

CreateFileFails(p) ==
    /\ pcs[p] = "create"
    /\ Finish(p, IoError, TRUE, TRUE, TRUE)
    /\ UNCHANGED <<cache_root, cache, procs, ctor, facade, call>>

\* fs::write, second half: write_all puts the buffer out piece by piece; after
\* the last piece get_resource returns Ok(Cursor::new(buffer))
WriteChunk(p) ==
    /\ pcs[p] = "write"
    /\ LET path == loc[p].cache_path.obj
           off == loc[p].written
       IN  /\ cache' = [cache EXCEPT ![path].bytes =
                           WriteAt(@, off, loc[p].buffer[off + 1])]
           /\ IF off + 1 = Len(loc[p].buffer)
              THEN Finish(p, Ok(loc[p].buffer), TRUE, TRUE, FALSE)
              ELSE /\ loc' = [loc EXCEPT ![p].written = off + 1]
                   /\ UNCHANGED <<pcs, log>>
    /\ UNCHANGED <<cache_root, procs, ctor, facade, call>>

WriteChunkFails(p) ==
    /\ pcs[p] = "write"
    /\ Finish(p, IoError, TRUE, TRUE, TRUE)
    /\ UNCHANGED <<cache_root, cache, procs, ctor, facade, call>>

NextResolve ==
    \/ \E p \in procs : StartLoad(p)
    \/ \E p \in procs : ReadCache(p)
    \/ \E p \in procs : FetchFails(p)
    \/ \E p \in procs : FetchCorrupt(p)
    \/ \E p \in procs : FetchOk(p)
    \/ \E p \in procs : MkDirs(p)
    \/ \E p \in procs : MkDirsFails(p)
    \/ \E p \in procs : CreateFile(p)
    \/ \E p \in procs : CreateFileFails(p)
    \/ \E p \in procs : WriteChunk(p)
    \/ \E p \in procs : WriteChunkFails(p)

InitResolve(ps) ==
    /\ ctor = NoCtor
    /\ facade = NoFacade
    /\ call = Idle
    /\ cache_root \in {None, Some(CacheDir)}
    /\ cache = [path \in CachePaths |-> NoFile]
    /\ procs = ps
    /\ pcs = [p \in ps |-> "idle"]
    /\ loc = [p \in ps |-> NoLocals]
    /\ log = [p \in ps |-> <<>>]

\* one process loading artifacts one after the other
InitLoad == InitResolve({1})
SpecLoad == InitLoad /\ [][NextResolve]_vars

\* two processes sharing the cache directory
InitRace == InitResolve({1, 2})
SpecRace == InitRace /\ [][NextResolve]_vars

(***************************************************************************)
(* Properties of the resolver.                                             *)
(***************************************************************************)
SameKey(a, b) == a.code = b.code /\ a.name = b.name

\* the second of two loads is served from the cache with the first one's bytes
Repeats(a, b) == b.loaded /\ b.bytes = a.bytes /\ ~b.requested

\* C6 as stated: of two successive loads of the same artifact, if the first
\* succeeds the second obtains the same bytes and makes no network request,
\* in every environment, also one without cache directory.
C6_AnyEnvironment ==
    \A p \in procs :
        \A i \in 1..Len(log[p]) - 1 :
            (SameKey(log[p][i], log[p][i + 1]) /\ log[p][i].loaded)
                => Repeats(log[p][i], log[p][i + 1])

\* C6 as amended: the same for any earlier and later load of one process that
\* runs alone, in an environment where a cache directory is obtainable.
C6_WithCacheRoot ==
    \A p \in procs :
        \A i, j \in 1..Len(log[p]) :
            (/\ i < j
             /\ SameKey(log[p][i], log[p][j])
             /\ log[p][i].loaded
             /\ log[p][i].has_cache_path)
                => Repeats(log[p][i], log[p][j])

\* a first load that went to the network and a second one served from the cache
C6_Witness ==
    \E p \in procs :
        /\ Len(log[p]) = 2
        /\ SameKey(log[p][1], log[p][2])
        /\ log[p][1].has_cache_path
        /\ log[p][1].loaded
        /\ log[p][1].requested
        /\ log[p][2].loaded
        /\ ~log[p][2].requested
        /\ log[p][2].bytes = Artifact(log[p][2].code, log[p][2].name)

\* C7: a load whose artifact was fetched and gunzipped, and whose cache write
\* (directory creation or file write) then failed, still returns the bytes.
C7_WriteFailureNonFatal ==
    \A p \in procs :
        \A i \in 1..Len(log[p]) :
            (log[p][i].gunzipped /\ log[p][i].write_failed)
                => /\ log[p][i].ok
                   /\ log[p][i].bytes = Artifact(log[p][i].code, log[p][i].name)
                   /\ log[p][i].loaded

\* what the code does there instead: the load fails with the io error
C7_WriteFailureFatal ==
    \A p \in procs :
        \A i \in 1..Len(log[p]) :
            log[p][i].write_failed
                => ~log[p][i].ok /\ log[p][i].err = "OSError" /\ ~log[p][i].loaded

NoWriteFailed ==
    \A p \in procs : \A i \in 1..Len(log[p]) : ~log[p][i].write_failed

\* C9: whatever the interleaving of the processes' cache writes and reads, a
\* resolve that returns successfully returns the complete artifact (stated
\* for runs in which no cache write failed, so that only the interleaving
\* can put an incomplete file before a reader).
C9_AtomicWrite ==
    NoWriteFailed =>
        \A p \in procs :
            \A i \in 1..Len(log[p]) :
                log[p][i].ok => log[p][i].bytes = Artifact(log[p][i].code, log[p][i].name)

====
